---- MODULE Spec2Model ----
(***************************************************************************)
(* Divide-and-conquer convex hull of src/Project1/convex_hull.py.          *)
(*                                                                         *)
(* A Point is the pair <<x, y>> of its coordinates (point.py keeps nothing *)
(* else).  Coordinates are small non-negative integers: on the grids used  *)
(* here every float operation of the source (subtraction, the division of  *)
(* the slope, the products) gives the same comparison result as exact      *)
(* arithmetic, and |v| < 1e-12 is v = 0.                                   *)
(* A hull is a sequence of Points.  The source indexes lists from 0; the   *)
(* model keeps the source's 0-based indices and reads them with At.        *)
(* A call ends in one of three ways: it returns a value, it raises         *)
(* ValueError, or it never returns (a tangent walk that cycles).           *)
(* file is the text of an input file, one character per element; stack is  *)
(* the call stack of convex_hull_recursive, one frame per call that has    *)
(* not returned; given is the caller's list as it was when                 *)
(* convex_hull_divide_and_conquer was called.                              *)
(***************************************************************************)
EXTENDS Integers, Sequences, FiniteSets, TLC

VARIABLES points, hull_a, hull_b, pc, result, output, call, file, stack, given

vars == <<points, hull_a, hull_b, pc, result, output, call, file, stack, given>>

(* ---------------------------- bounds ----------------------------------- *)
MaxX == 2
MaxY == 2
MaxN == 5
MaxBase == 5
MaxOrig == 3
MaxHull == 2
MaxTan == 5
MaxDup == 4
MaxRec == 3
MaxExt == 3
MaxDrv == 4
MaxDeep == 7

(* the largest list the base case accepts (line 146) *)
BaseSize == 3

Grid == (0..MaxX) \X (0..MaxY)

(* ---------------------------- helpers ---------------------------------- *)
At(h, i) == h[i + 1]

Range(s) == {s[i] : i \in 1..Len(s)}

PyMod(a, n) == a % n

Max2(a, b) == IF a > b THEN a ELSE b

SameCoords(p, q) == p[1] = q[1] /\ p[2] = q[2]

Raise == [kind |-> "error", hull |-> <<>>]

Diverge == [kind |-> "diverge", hull |-> <<>>]

Return(h) == [kind |-> "hull", hull |-> h]

(* key=lambda p: (p.x, p.y) compared with < *)
KeyLess(p, q) == p[1] < q[1] \/ (p[1] = q[1] /\ p[2] < q[2])

RECURSIVE InsertSorted(_, _)
InsertSorted(s, p) ==
    IF s = <<>> THEN <<p>>
    ELSE IF KeyLess(p, Head(s)) THEN <<p>> \o s
         ELSE <<Head(s)>> \o InsertSorted(Tail(s), p)

(* sorted(points, key=lambda p: (p.x, p.y)): the stable ascending order *)
(* variant: the list is taken as it is given *)
sorted_AsGiven(s) == s

RECURSIVE sorted(_)
sorted(s) ==
    IF s = <<>> THEN <<>>
    ELSE InsertSorted(sorted(SubSeq(s, 1, Len(s) - 1)), s[Len(s)])

(* ---------------------- find_rightmost / leftmost ---------------------- *)
(* what the two functions give back: an index, or ValueError *)
IndexRaise == [kind |-> "error", index |-> 0]

ReturnIndex(i) == [kind |-> "index", index |-> i]

(* variant: equal x never replaces the best index so far *)
RECURSIVE RightmostFrom_NoTieBreak(_, _, _)
RightmostFrom_NoTieBreak(hull, i, best) ==
    IF i >= Len(hull) THEN best
    ELSE IF At(hull, i)[1] > At(hull, best)[1] THEN RightmostFrom_NoTieBreak(hull, i + 1, i)
    ELSE RightmostFrom_NoTieBreak(hull, i + 1, best)

(* the for loop of lines 93-97 from index i on, rightmost_idx = best *)
RECURSIVE RightmostFrom(_, _, _)
RightmostFrom(hull, i, best) ==
    IF i >= Len(hull) THEN best
    ELSE IF At(hull, i)[1] > At(hull, best)[1] THEN RightmostFrom(hull, i + 1, i)
    ELSE IF At(hull, i)[1] = At(hull, best)[1] /\ At(hull, i)[2] > At(hull, best)[2]
         THEN RightmostFrom(hull, i + 1, i)
    ELSE RightmostFrom(hull, i + 1, best)

find_rightmost_point(hull) ==
    IF Len(hull) = 0 THEN IndexRaise ELSE ReturnIndex(RightmostFrom(hull, 1, 0))

RECURSIVE LeftmostFrom(_, _, _)
LeftmostFrom(hull, i, best) ==
    IF i >= Len(hull) THEN best
    ELSE IF At(hull, i)[1] < At(hull, best)[1] THEN LeftmostFrom(hull, i + 1, i)
    ELSE IF At(hull, i)[1] = At(hull, best)[1] /\ At(hull, i)[2] < At(hull, best)[2]
         THEN LeftmostFrom(hull, i + 1, i)
    ELSE LeftmostFrom(hull, i + 1, best)

find_leftmost_point(hull) ==
    IF Len(hull) = 0 THEN IndexRaise ELSE ReturnIndex(LeftmostFrom(hull, 1, 0))

(* --------------------------- base case --------------------------------- *)
cross_product(p1, p2, p3) ==
    (p2[1] - p1[1]) * (p3[2] - p1[2]) - (p2[2] - p1[2]) * (p3[1] - p1[1])

(* variant: only neighbouring pairs are compared *)
HasDuplicate3_AdjacentOnly(p1, p2, p3) ==
    SameCoords(p1, p2) \/ SameCoords(p2, p3)

HasDuplicate3(p1, p2, p3) ==
    SameCoords(p1, p2) \/ SameCoords(p1, p3) \/ SameCoords(p2, p3)

(* variant: the collinear case keeps the first and the last given point *)
BaseCase3_FirstAndLast(pts) ==
    LET p1 == pts[1]
        p2 == pts[2]
        p3 == pts[3]
        cp == cross_product(p1, p2, p3)
    IN  IF HasDuplicate3(p1, p2, p3) THEN Raise
        ELSE IF cp = 0 THEN Return(<<p1, p3>>)
        ELSE IF cp > 0 THEN Return(<<p1, p2, p3>>)
        ELSE Return(<<p1, p3, p2>>)

(* variant: a clockwise triangle is returned as given *)
BaseCase3_NoSwap(pts) ==
    LET p1 == pts[1]
        p2 == pts[2]
        p3 == pts[3]
        cp == cross_product(p1, p2, p3)
    IN  IF HasDuplicate3(p1, p2, p3) THEN Raise
        ELSE IF cp = 0 THEN Return(<<sorted(pts)[1], sorted(pts)[3]>>)
        ELSE Return(<<p1, p2, p3>>)

BaseCase3(pts) ==
    LET p1 == pts[1]
        p2 == pts[2]
        p3 == pts[3]
        cp == cross_product(p1, p2, p3)
    IN  IF HasDuplicate3(p1, p2, p3) THEN Raise
        ELSE IF cp = 0 THEN Return(<<sorted(pts)[1], sorted(pts)[3]>>)
        ELSE IF cp > 0 THEN Return(<<p1, p2, p3>>)
        ELSE Return(<<p1, p3, p2>>)

(* variant: the identical-points test is missing *)
BaseCase2_NoIdenticalTest(pts) == Return(pts)

BaseCase2(pts) ==
    IF SameCoords(pts[1], pts[2]) THEN Raise ELSE Return(pts)

(* variant: a single point is returned as a one-point hull *)
convex_hull_base_case_SinglePointHull(pts) ==
    IF Len(pts) = 0 THEN Raise
    ELSE IF Len(pts) < 2 THEN Return(pts)
    ELSE IF Len(pts) > BaseSize THEN Raise
    ELSE IF Len(pts) = 2 THEN BaseCase2(pts)
    ELSE BaseCase3(pts)

(* variant: the upper size limit is missing, the first three points count *)
convex_hull_base_case_NoUpperLimit(pts) ==
    IF Len(pts) = 0 THEN Raise
    ELSE IF Len(pts) < 2 THEN Raise
    ELSE IF Len(pts) = 2 THEN BaseCase2(pts)
    ELSE BaseCase3(pts)

convex_hull_base_case(pts) ==
    IF Len(pts) = 0 THEN Raise
    ELSE IF Len(pts) < 2 THEN Raise
    ELSE IF Len(pts) > BaseSize THEN Raise
    ELSE IF Len(pts) = 2 THEN BaseCase2(pts)
    ELSE BaseCase3(pts)

(* ------------------------ point_is_above_line -------------------------- *)
(* Lines 218-231: q.y > slope * q.x + y_intercept with slope = dy / dx,    *)
(* cleared of the division: (q.y - p1.y) * dx > dy * (q.x - p1.x) for      *)
(* dx > 0 and the reverse comparison for dx < 0.                           *)
AboveLine(p1, p2, q) ==
    IF p1[1] = p2[1] THEN q[2] > Max2(p1[2], p2[2])
    ELSE LET dx == p2[1] - p1[1]
             dy == p2[2] - p1[2]
             lhs == (q[2] - p1[2]) * dx
             rhs == dy * (q[1] - p1[1])
         IN  IF dx > 0 THEN lhs > rhs ELSE lhs < rhs

point_is_above_line(p1, p2, q) ==
    IF SameCoords(p1, p2) THEN [kind |-> "error", above |-> FALSE]
    ELSE [kind |-> "ok", above |-> AboveLine(p1, p2, q)]

(* ----------------------------- tangents -------------------------------- *)
(* The for loop of lines 346-350: every hull[i], i # skip, is tested       *)
(* against the line p1-p2 until one test fails.  The line is the same for  *)
(* every i, so the loop raises at its first test exactly when p1 = p2.     *)
OthersAllBelow(p1, p2, hull, skip) ==
    \A i \in 0..(Len(hull) - 1) :
        i # skip => ~point_is_above_line(p1, p2, At(hull, i)).above

OthersAllAbove(p1, p2, hull, skip) ==
    \A i \in 0..(Len(hull) - 1) :
        i # skip => point_is_above_line(p1, p2, At(hull, i)).above

(* State of a tangent walk: at which inner loop it stands ("A", "B"), or   *)
(* how it ended ("ret", "err"), the two indices and the improved flag.     *)
WalkStart(A, B) ==
    [at |-> "A", a |-> find_rightmost_point(A).index, b |-> find_leftmost_point(B).index,
     improved |-> FALSE]

(* One iteration of an inner `while True` of find_upper_tangent; leaving   *)
(* the second inner loop includes the test of the outer `while improved`.  *)
UpperStep(A, B, w) ==
    IF w.at = "A" THEN
        LET next_a == PyMod(w.a + 1, Len(A))
        IN  IF SameCoords(At(A, next_a), At(B, w.b)) THEN [w EXCEPT !.at = "err"]
            ELSE IF OthersAllBelow(At(A, next_a), At(B, w.b), B, w.b)
                 THEN [w EXCEPT !.a = next_a, !.improved = TRUE]
            ELSE [w EXCEPT !.at = "B"]
    ELSE
        LET next_b == PyMod(w.b - 1, Len(B))
        IN  IF SameCoords(At(A, w.a), At(B, next_b)) THEN [w EXCEPT !.at = "err"]
            ELSE IF OthersAllBelow(At(A, w.a), At(B, next_b), A, w.a)
                 THEN [w EXCEPT !.b = next_b, !.improved = TRUE]
            ELSE IF w.improved THEN [w EXCEPT !.at = "A", !.improved = FALSE]
            ELSE [w EXCEPT !.at = "ret"]

(* The same for find_lower_tangent: a moves backward, b forward, and a     *)
(* move is taken when every other point of the other hull is above.        *)
LowerStep(A, B, w) ==
    IF w.at = "A" THEN
        LET next_a == PyMod(w.a - 1, Len(A))
        IN  IF SameCoords(At(A, next_a), At(B, w.b)) THEN [w EXCEPT !.at = "err"]
            ELSE IF OthersAllAbove(At(A, next_a), At(B, w.b), B, w.b)
                 THEN [w EXCEPT !.a = next_a, !.improved = TRUE]
            ELSE [w EXCEPT !.at = "B"]
    ELSE
        LET next_b == PyMod(w.b + 1, Len(B))
        IN  IF SameCoords(At(A, w.a), At(B, next_b)) THEN [w EXCEPT !.at = "err"]
            ELSE IF OthersAllAbove(At(A, w.a), At(B, next_b), A, w.a)
                 THEN [w EXCEPT !.b = next_b, !.improved = TRUE]
            ELSE IF w.improved THEN [w EXCEPT !.at = "A", !.improved = FALSE]
            ELSE [w EXCEPT !.at = "ret"]

(* A walk has at most 4 * |A| * |B| states (loop, a, b, improved) and is   *)
(* deterministic: one that has not ended after that many iterations is in  *)
(* a cycle and never ends.                                                 *)
WalkStates(A, B) == 4 * Len(A) * Len(B)

RECURSIVE UpperWalk(_, _, _, _)
UpperWalk(A, B, w, fuel) ==
    IF w.at \in {"ret", "err"} THEN w
    ELSE IF fuel = 0 THEN [w EXCEPT !.at = "loop"]
    ELSE UpperWalk(A, B, UpperStep(A, B, w), fuel - 1)

RECURSIVE LowerWalk(_, _, _, _)
LowerWalk(A, B, w, fuel) ==
    IF w.at \in {"ret", "err"} THEN w
    ELSE IF fuel = 0 THEN [w EXCEPT !.at = "loop"]
    ELSE LowerWalk(A, B, LowerStep(A, B, w), fuel - 1)

TangentRaise == [kind |-> "error", a |-> 0, b |-> 0]

TangentOutcome(w) ==
    [kind |-> CASE w.at = "ret" -> "ok" [] w.at = "err" -> "error" [] OTHER -> "diverge",
     a |-> w.a, b |-> w.b]

(* Variant: only the test for an empty hull, without the test for a hull   *)
(* of fewer than 2 points.                                                 *)
find_upper_tangent_OnlyEmptyTest(A, B) ==
    IF Len(A) = 0 \/ Len(B) = 0 THEN TangentRaise
    ELSE TangentOutcome(UpperWalk(A, B, WalkStart(A, B), WalkStates(A, B) + 1))

find_upper_tangent(A, B) ==
    IF Len(A) = 0 \/ Len(B) = 0 THEN TangentRaise
    ELSE IF Len(A) < 2 \/ Len(B) < 2 THEN TangentRaise
    ELSE TangentOutcome(UpperWalk(A, B, WalkStart(A, B), WalkStates(A, B) + 1))

find_lower_tangent(A, B) ==
    IF Len(A) = 0 \/ Len(B) = 0 THEN TangentRaise
    ELSE IF Len(A) < 2 \/ Len(B) < 2 THEN TangentRaise
    ELSE TangentOutcome(LowerWalk(A, B, WalkStart(A, B), WalkStates(A, B) + 1))

(* ------------------------------ merge ---------------------------------- *)
(* Variant: the stop test comes after the step, so a walk whose first      *)
(* vertex is also its last goes once around and appends it again.          *)
RECURSIVE WalkForward_StepFirst(_, _, _)
WalkForward_StepFirst(hull, current, last) ==
    <<At(hull, current)>>
      \o (IF PyMod(current + 1, Len(hull)) = last THEN <<At(hull, last)>>
          ELSE WalkForward_StepFirst(hull, PyMod(current + 1, Len(hull)), last))

(* Variant: the walk steps to the previous index instead of the next.      *)
RECURSIVE WalkForward_Backward(_, _, _)
WalkForward_Backward(hull, current, last) ==
    IF current = last THEN <<At(hull, current)>>
    ELSE <<At(hull, current)>>
           \o WalkForward_Backward(hull, PyMod(current - 1, Len(hull)), last)

(* while True: append hull[current]; stop at `last`; else step forward.    *)
RECURSIVE WalkForward(_, _, _)
WalkForward(hull, current, last) ==
    IF current = last THEN <<At(hull, current)>>
    ELSE <<At(hull, current)>> \o WalkForward(hull, PyMod(current + 1, Len(hull)), last)

merge_hulls(A, B) ==
    IF Len(A) = 0 \/ Len(B) = 0 THEN Raise
    ELSE IF Len(A) < 2 \/ Len(B) < 2 THEN Raise
    ELSE LET upper == find_upper_tangent(A, B)
         IN  IF upper.kind = "error" THEN Raise
             ELSE IF upper.kind = "diverge" THEN Diverge
             ELSE LET lower == find_lower_tangent(A, B)
                  IN  IF lower.kind = "error" THEN Raise
                      ELSE IF lower.kind = "diverge" THEN Diverge
                      ELSE Return(WalkForward(A, lower.a, upper.a)
                                  \o WalkForward(B, upper.b, lower.b))

(* ------------------------- divide and conquer -------------------------- *)
RECURSIVE convex_hull_recursive(_)
convex_hull_recursive(pts) ==
    IF Len(pts) = 0 THEN Raise
    ELSE IF Len(pts) <= BaseSize THEN convex_hull_base_case(pts)
    ELSE LET mid == Len(pts) \div 2
             left_hull == convex_hull_recursive(SubSeq(pts, 1, mid))
         IN  IF left_hull.kind # "hull" THEN left_hull
             ELSE LET right_hull == convex_hull_recursive(SubSeq(pts, mid + 1, Len(pts)))
                  IN  IF right_hull.kind # "hull" THEN right_hull
                      ELSE merge_hulls(left_hull.hull, right_hull.hull)

(* variant: the input is taken as already sorted *)
convex_hull_divide_and_conquer_NoSort(pts) ==
    IF Len(pts) = 0 THEN Raise
    ELSE IF Len(pts) < 2 THEN Raise
    ELSE convex_hull_recursive(pts)

convex_hull_divide_and_conquer(pts) ==
    IF Len(pts) = 0 THEN Raise
    ELSE IF Len(pts) < 2 THEN Raise
    ELSE convex_hull_recursive(sorted(pts))

(* ---------------------- write_hull_indices_to_file --------------------- *)
(* The inner for/else of lines 532-538: the first position of              *)
(* original_points with the coordinates of hull_point, or -1 (the else     *)
(* branch, which raises).                                                  *)
RECURSIVE FirstIndexFrom(_, _, _)
FirstIndexFrom(original_points, hull_point, i) ==
    IF i >= Len(original_points) THEN -1
    ELSE IF SameCoords(hull_point, At(original_points, i)) THEN i
    ELSE FirstIndexFrom(original_points, hull_point, i + 1)

(* variant: the position in the hull is taken for the original position *)
hull_indices_HullPosition(hull_points, original_points) ==
    [k \in 1..Len(hull_points) |->
        IF FirstIndexFrom(original_points, hull_points[k], 0) = -1 THEN -1 ELSE k - 1]

hull_indices(hull_points, original_points) ==
    [k \in 1..Len(hull_points) |-> FirstIndexFrom(original_points, hull_points[k], 0)]

Digit(d) == <<"0", "1", "2", "3", "4", "5", "6", "7", "8", "9">>[d + 1]

(* f"{index}" for index >= 0: the decimal digits, most significant first *)
RECURSIVE Str(_)
Str(n) == IF n < 10 THEN <<Digit(n)>> ELSE Str(n \div 10) \o <<Digit(n % 10)>>

(* for index in hull_indices: file.write(f"{index}\n") *)
RECURSIVE FileContent(_)
FileContent(indices) ==
    IF indices = <<>> THEN <<>>
    ELSE Str(Head(indices)) \o <<"\n">> \o FileContent(Tail(indices))

(* kind "error": ValueError, nothing is written; else the file's content *)
write_hull_indices_to_file(hull_points, original_points) ==
    IF Len(hull_points) = 0 THEN [kind |-> "error", content |-> <<>>]
    ELSE IF Len(original_points) = 0 THEN [kind |-> "error", content |-> <<>>]
    ELSE IF \E k \in 1..Len(hull_points) : hull_indices(hull_points, original_points)[k] = -1
         THEN [kind |-> "error", content |-> <<>>]
    ELSE [kind |-> "none", content |-> FileContent(hull_indices(hull_points, original_points))]

(* --------------------------- parse_input_file -------------------------- *)
(* The file is the sequence of its characters.  `for line in file` gives   *)
(* the lines, each with its line end (the last one may have none).         *)
NewlineAt(c) ==
    IF \E i \in 1..Len(c) : c[i] = "\n"
    THEN CHOOSE i \in 1..Len(c) : c[i] = "\n" /\ \A j \in 1..(i - 1) : c[j] # "\n"
    ELSE Len(c)

RECURSIVE FileLines(_)
FileLines(c) ==
    IF c = <<>> THEN <<>>
    ELSE <<SubSeq(c, 1, NewlineAt(c))>> \o FileLines(SubSeq(c, NewlineAt(c) + 1, Len(c)))

Whitespace == {" ", "\t", "\n", "\r"}

RECURSIVE lstrip(_)
lstrip(s) ==
    IF s # <<>> /\ Head(s) \in Whitespace THEN lstrip(Tail(s)) ELSE s

RECURSIVE rstrip(_)
rstrip(s) ==
    IF s # <<>> /\ s[Len(s)] \in Whitespace THEN rstrip(SubSeq(s, 1, Len(s) - 1)) ELSE s

(* str.strip() *)
strip(s) == lstrip(rstrip(s))

(* line.split(','): the parts between the commas, empty parts included *)
RECURSIVE split(_)
split(s) ==
    IF \E i \in 1..Len(s) : s[i] = ","
    THEN LET i == CHOOSE k \in 1..Len(s) : s[k] = "," /\ \A j \in 1..(k - 1) : s[j] # ","
         IN  <<SubSeq(s, 1, i - 1)>> \o split(SubSeq(s, i + 1, Len(s)))
    ELSE <<s>>

DigitChars == {Digit(d) : d \in 0..9}

RECURSIVE IntValue(_)
IntValue(s) ==
    IF s = <<>> THEN 0
    ELSE 10 * IntValue(SubSeq(s, 1, Len(s) - 1))
           + (CHOOSE d \in 0..9 : Digit(d) = s[Len(s)])

(* float(text) for the texts met here (no sign, point or exponent): a run  *)
(* of digits is its number, "nan" and "inf" are the two special values,    *)
(* anything else raises ValueError ("could not convert ...").              *)
float(s) ==
    IF s # <<>> /\ \A i \in 1..Len(s) : s[i] \in DigitChars
        THEN [kind |-> "number", value |-> IntValue(s)]
    ELSE IF s = <<"n", "a", "n">> THEN [kind |-> "nan", value |-> 0]
    ELSE IF s = <<"i", "n", "f">> THEN [kind |-> "inf", value |-> 0]
    ELSE [kind |-> "error", value |-> 0]

(* The body of the for loop, lines 22-55: "skip" for an empty line, the    *)
(* parsed point, or "error" for every ValueError the line raises.          *)
ParseLine(line) ==
    LET stripped == strip(line)
        parts == split(stripped)
        NoPoint(k) == [kind |-> k, point |-> <<0, 0>>]
    IN  IF stripped = <<>> THEN NoPoint("skip")
        ELSE IF Len(parts) # 2 THEN NoPoint("error")
        ELSE LET x_str == strip(parts[1])
                 y_str == strip(parts[2])
             IN  IF x_str = <<>> \/ y_str = <<>> THEN NoPoint("error")
                 ELSE IF float(x_str).kind = "error" THEN NoPoint("error")
                 ELSE IF float(y_str).kind = "error" THEN NoPoint("error")
                 ELSE IF float(x_str).kind = "nan" \/ float(y_str).kind = "nan"
                      THEN NoPoint("error")
                 ELSE IF float(x_str).kind = "inf" \/ float(y_str).kind = "inf"
                      THEN NoPoint("error")
                 ELSE [kind |-> "point",
                       point |-> <<float(x_str).value, float(y_str).value>>]

ParseRaise == [kind |-> "error", points |-> <<>>]

(* The for loop over the lines: the points appended so far, or the error   *)
(* of the first line that raises.                                          *)
RECURSIVE ParseLinesFrom(_, _)
ParseLinesFrom(lines, acc) ==
    IF lines = <<>> THEN [kind |-> "points", points |-> acc]
    ELSE LET r == ParseLine(Head(lines))
         IN  IF r.kind = "error" THEN ParseRaise
             ELSE IF r.kind = "skip" THEN ParseLinesFrom(Tail(lines), acc)
             ELSE ParseLinesFrom(Tail(lines), acc \o <<r.point>>)

(* the seen_points loop of lines 68-73 *)
HasDuplicatePoint(pts) ==
    \E i \in 1..Len(pts) : \E j \in 1..(i - 1) : SameCoords(pts[i], pts[j])

(* the minimum the validation asks for (line 64) *)
MinPoints == 3

(* variant: the check for duplicate points is missing *)
parse_input_file_NoDuplicateCheck(text) ==
    LET parsed == ParseLinesFrom(FileLines(text), <<>>)
    IN  IF parsed.kind = "error" THEN ParseRaise
        ELSE IF Len(parsed.points) < MinPoints THEN ParseRaise
        ELSE parsed

parse_input_file(text) ==
    LET parsed == ParseLinesFrom(FileLines(text), <<>>)
    IN  IF parsed.kind = "error" THEN ParseRaise
        ELSE IF Len(parsed.points) < MinPoints THEN ParseRaise
        ELSE IF HasDuplicatePoint(parsed.points) THEN ParseRaise
        ELSE parsed

(* ------------------------------ inputs --------------------------------- *)
SeqsUpTo(S, n) == UNION {[1..k -> S] : k \in 0..n}

PairwiseDistinct(s) == \A i, j \in 1..Len(s) : i # j => ~SameCoords(s[i], s[j])

RECURSIVE Reverse(_)
Reverse(s) == IF s = <<>> THEN <<>> ELSE Reverse(Tail(s)) \o <<Head(s)>>

RotateBy(s, k) == SubSeq(s, k + 1, Len(s)) \o SubSeq(s, 1, k)

RECURSIVE SeqOfSet(_)
SeqOfSet(S) ==
    IF S = {} THEN <<>>
    ELSE LET p == CHOOSE q \in S : \A r \in S : r = q \/ KeyLess(q, r)
         IN  <<p>> \o SeqOfSet(S \ {p})

(* The sets of at most n grid points, built up one point at a time *)
RECURSIVE SubsetsUpTo(_)
SubsetsUpTo(n) ==
    IF n = 0 THEN {{}}
    ELSE LET smaller == SubsetsUpTo(n - 1)
         IN  smaller \cup {T \cup {p} : T \in smaller, p \in Grid}

(* Lists of pairwise distinct points, as parse_input_file lets through     *)
(* (and shorter ones for direct calls): every set of at most n grid points *)
(* in ascending order, rotated by one and by half, and in descending order *)
Orderings(s) == {s, RotateBy(s, 1 % (Len(s) + 1)), RotateBy(s, Len(s) \div 2), Reverse(s)}

DistinctLists(n) ==
    UNION {Orderings(SeqOfSet(S)) : S \in SubsetsUpTo(n)}

(* Any list of at most BaseSize grid points, equal points included, and    *)
(* the longer lists that start the grid in ascending order.                *)
BaseLists ==
    SeqsUpTo(Grid, BaseSize)
        \cup {SubSeq(SeqOfSet(Grid), 1, k) : k \in (BaseSize + 1)..MaxBase}

NoResult == [kind |-> "none", hull |-> <<>>]

PcAfter(r) ==
    CASE r.kind = "error" -> "raised"
      [] r.kind = "diverge" -> "running"
      [] OTHER -> "returned"

(* ------------- the pipeline: hull of the input, then output ------------ *)
Init ==
    /\ points \in DistinctLists(MaxN)
    /\ hull_a = <<>>
    /\ hull_b = <<>>
    /\ pc = "init"
    /\ result = NoResult
    /\ output = <<>>
    /\ call = "none"
    /\ file = <<>>
    /\ stack = <<>>
    /\ given = <<>>

(* hull = convex_hull_divide_and_conquer(points); a call whose tangent     *)
(* walk cycles stays "running" for ever.                                   *)
CallDivideAndConquer ==
    /\ pc = "init"
    /\ result' = convex_hull_divide_and_conquer(points)
    /\ pc' = PcAfter(result')
    /\ call' = "convex_hull_divide_and_conquer"
    /\ UNCHANGED <<points, hull_a, hull_b, output, file, stack, given>>

(* write_hull_indices_to_file(hull, points, 'output.txt') *)
WriteHull ==
    /\ pc = "returned"
    /\ LET w == write_hull_indices_to_file(result.hull, points)
       IN  /\ pc' = IF w.kind = "error" THEN "write_raised" ELSE "written"
           /\ output' = w.content
    /\ call' = "write_hull_indices_to_file"
    /\ UNCHANGED <<points, hull_a, hull_b, result, file, stack, given>>

Next == CallDivideAndConquer \/ WriteHull

Spec == Init /\ [][Next]_vars

(* ------------------ direct calls of the base case ---------------------- *)
InitBase ==
    /\ points \in BaseLists
    /\ hull_a = <<>>
    /\ hull_b = <<>>
    /\ pc = "init"
    /\ result = NoResult
    /\ output = <<>>
    /\ call = "none"
    /\ file = <<>>
    /\ stack = <<>>
    /\ given = <<>>

CallBaseCase ==
    /\ pc = "init"
    /\ result' = convex_hull_base_case(points)
    /\ pc' = PcAfter(result')
    /\ call' = "convex_hull_base_case"
    /\ UNCHANGED <<points, hull_a, hull_b, output, file, stack, given>>

NextBase == CallBaseCase

SpecBase == InitBase /\ [][NextBase]_vars

(* ------------- direct calls of write_hull_indices_to_file -------------- *)
(* original_points is a validated input; hull_points is any short list of  *)
(* its points and of one fixed point that may be foreign to it.            *)
InitWrite ==
    /\ points \in DistinctLists(MaxOrig)
    /\ hull_a \in SeqsUpTo(Range(points) \cup {<<0, 0>>}, MaxHull)
    /\ hull_b = <<>>
    /\ pc = "init"
    /\ result = NoResult
    /\ output = <<>>
    /\ call = "none"
    /\ file = <<>>
    /\ stack = <<>>
    /\ given = <<>>

CallWriteHullIndices ==
    /\ pc = "init"
    /\ LET w == write_hull_indices_to_file(hull_a, points)
       IN  /\ pc' = IF w.kind = "error" THEN "raised" ELSE "written"
           /\ output' = w.content
    /\ call' = "write_hull_indices_to_file"
    /\ UNCHANGED <<points, hull_a, hull_b, result, file, stack, given>>

NextWrite == CallWriteHullIndices

SpecWrite == InitWrite /\ [][NextWrite]_vars

(* ======================= properties of the result ====================== *)
(* Geometry the properties are stated in; exact integer arithmetic.        *)
Orient(a, b, c) == cross_product(a, b, c)

Returned == result.kind = "hull"

CycNext(h, i) == h[(i % Len(h)) + 1]

CycPrev(h, i) == h[((i + Len(h) - 2) % Len(h)) + 1]

(* p lies on the closed segment a-b *)
OnSegment(p, a, b) ==
    /\ Orient(a, b, p) = 0
    /\ (p[1] - a[1]) * (p[1] - b[1]) <= 0
    /\ (p[2] - a[2]) * (p[2] - b[2]) <= 0

(* p lies in the closed triangle a b c, which is not degenerate *)
InTriangle(p, a, b, c) ==
    /\ Orient(a, b, c) # 0
    /\ \/ (Orient(a, b, p) >= 0 /\ Orient(b, c, p) >= 0 /\ Orient(c, a, p) >= 0)
       \/ (Orient(a, b, p) <= 0 /\ Orient(b, c, p) <= 0 /\ Orient(c, a, p) <= 0)

(* The corner points of the convex hull of S, as brute force finds them:   *)
(* the points of S that are not in the convex hull of the others.          *)
ReferenceHull(S) ==
    {p \in S :
        LET T == S \ {p}
        IN  /\ ~\E a, b \in T : OnSegment(p, a, b)
            /\ ~\E a, b, c \in T : InTriangle(p, a, b, c)}

AllCollinear(S) == \A a, b, c \in S : Orient(a, b, c) = 0

(* p is in the interior of the convex hull of S (S not collinear): p is    *)
(* strictly left of every directed line a->b that has all of S on its left *)
StrictlyInside(p, S) ==
    \A a, b \in S :
        (a # b /\ \A q \in S : Orient(a, b, q) >= 0) => Orient(a, b, p) > 0

SquareCorners == {<<0, 0>>, <<2, 0>>, <<2, 2>>, <<0, 2>>}

SquareWithCentre == SquareCorners \cup {<<1, 1>>}

StrictlyCCW(h) ==
    \A i \in 1..Len(h) : Orient(CycPrev(h, i), h[i], CycNext(h, i)) > 0

(* C1: for n >= 3 pairwise distinct points the set of returned vertices is *)
(* the vertex set of the brute-force reference hull of the same points.    *)
C1_SameVertexSetAsReference ==
    (Returned /\ Len(points) >= 3) =>
        Range(result.hull) = ReferenceHull(Range(points))

(* C2: convexity - for n >= 3 pairwise distinct points no cyclically       *)
(* adjacent triple of the returned hull turns RIGHT.                       *)
C2_Convex ==
    (Returned /\ Len(points) >= 3) =>
        \A i \in 1..Len(result.hull) :
            Orient(CycPrev(result.hull, i), result.hull[i], CycNext(result.hull, i)) >= 0

(* C3: containment - for n >= 3 pairwise distinct points no input point is *)
(* strictly right of a directed edge between consecutive returned vertices *)
C3_Contains ==
    (Returned /\ Len(points) >= 3) =>
        \A i \in 1..Len(result.hull) : \A q \in Range(points) :
            Orient(result.hull[i], CycNext(result.hull, i), q) >= 0

(* C4: minimality - for n >= 3 pairwise distinct points, not all collinear,*)
(* no returned point is strictly inside the hull of the input; the square  *)
(* with its centre gives exactly the four corners counter-clockwise.       *)
C4_Minimal ==
    /\ (Returned /\ Len(points) >= 3 /\ ~AllCollinear(Range(points))) =>
           \A p \in Range(result.hull) : ~StrictlyInside(p, Range(points))
    /\ (pc # "init" /\ Range(points) = SquareWithCentre) =>
           /\ Returned
           /\ Len(result.hull) = 4
           /\ Range(result.hull) = SquareCorners
           /\ StrictlyCCW(result.hull)

(* C5: termination - for n >= 2 pairwise distinct points the call returns  *)
(* or raises: no tangent walk made during the recursion runs for ever.     *)
C5_Terminates ==
    (pc # "init" /\ Len(points) >= 2) => result.kind # "diverge"

(* C8: for n >= 3 pairwise distinct points the first returned vertex is    *)
(* the smallest input point by (x, y).                                     *)
C8_StartsAtSmallest ==
    (Returned /\ Len(points) >= 3) =>
        \A q \in Range(points) : q = result.hull[1] \/ KeyLess(result.hull[1], q)

Swap12(s) == IF Len(s) < 2 THEN s ELSE <<s[2], s[1]>> \o SubSeq(s, 3, Len(s))

Rotate(s) == IF Len(s) < 2 THEN s ELSE Tail(s) \o <<Head(s)>>

(* C6: permutation invariance - for n >= 3 pairwise distinct points every  *)
(* ordering of the same points gives the same outcome, the same sequence   *)
(* of vertices when a hull is returned.  Each input list is compared with  *)
(* itself after an exchange of its first two points and after a rotation   *)
(* (the two generate every reordering).                                    *)
C6_PermutationInvariant ==
    (pc # "init" /\ Len(points) >= 3) =>
        /\ convex_hull_divide_and_conquer(Swap12(points)) = result
        /\ convex_hull_divide_and_conquer(Rotate(points)) = result

(* a hull was returned for four or more points given out of order *)
C6_Witness ==
    /\ Returned
    /\ Len(points) >= 4
    /\ points # sorted(points)
    /\ convex_hull_divide_and_conquer(Swap12(points)).kind = "hull"

(* ----------------------- reading the output back ----------------------- *)
DigitValue(c) == CHOOSE d \in 0..9 : Digit(d) = c

RECURSIVE Decimal(_)
Decimal(line) ==
    IF line = <<>> THEN 0
    ELSE 10 * Decimal(SubSeq(line, 1, Len(line) - 1)) + DigitValue(line[Len(line)])

LineEnd(c) ==
    IF \E i \in 1..Len(c) : c[i] = "\n"
    THEN CHOOSE i \in 1..Len(c) : c[i] = "\n" /\ \A j \in 1..(i - 1) : c[j] # "\n"
    ELSE Len(c) + 1

(* the numbers on the lines of a file; an empty line reads as -1 *)
RECURSIVE ParseLines(_)
ParseLines(c) ==
    IF c = <<>> THEN <<>>
    ELSE LET line == SubSeq(c, 1, LineEnd(c) - 1)
         IN  <<IF line = <<>> THEN -1 ELSE Decimal(line)>>
             \o ParseLines(SubSeq(c, LineEnd(c) + 1, Len(c)))

(* C7: index fidelity - given a hull whose points all occur in             *)
(* original_points, write_hull_indices_to_file emits one index per hull    *)
(* point, in hull order, each a valid position of original_points whose    *)
(* point has the coordinates of that hull point.                           *)
C7_IndexFidelity ==
    (pc # "init" /\ hull_a # <<>> /\ Range(hull_a) \subseteq Range(points)) =>
        /\ pc = "written"
        /\ Len(ParseLines(output)) = Len(hull_a)
        /\ \A k \in 1..Len(hull_a) :
               /\ ParseLines(output)[k] \in 0..(Len(points) - 1)
               /\ SameCoords(At(points, ParseLines(output)[k]), hull_a[k])

(* two of three points written in an order that is not the original one *)
C7_Witness ==
    /\ pc = "written"
    /\ Len(hull_a) = 2
    /\ Len(points) = 3
    /\ ParseLines(output) = <<2, 0>>

(* C9: the base case on exactly 2 points raises and returns no hull when   *)
(* the two have identical coordinates, and otherwise returns exactly the   *)
(* two points in the given order.                                          *)
C9_TwoPoints ==
    (pc # "init" /\ Len(points) = 2) =>
        IF SameCoords(points[1], points[2])
        THEN pc = "raised" /\ result.kind = "error" /\ result.hull = <<>>
        ELSE pc = "returned" /\ result.kind = "hull" /\ result.hull = points

(* two identical points were rejected *)
C9_Witness ==
    /\ pc = "raised"
    /\ Len(points) = 2
    /\ SameCoords(points[1], points[2])

(* C10: the base case on exactly 3 points raises whenever any two of them  *)
(* have equal coordinates, whatever their order and before any orientation *)
(* decides the result.                                                     *)
C10_ThreeWithDuplicate ==
    (pc # "init" /\ Len(points) = 3 /\ ~PairwiseDistinct(points)) =>
        pc = "raised" /\ result.kind = "error" /\ result.hull = <<>>

(* the first and the last of three points are equal, the middle one not *)
C10_Witness ==
    /\ pc = "raised"
    /\ Len(points) = 3
    /\ SameCoords(points[1], points[3])
    /\ ~SameCoords(points[1], points[2])

(* C11: the base case on 3 pairwise distinct collinear points, in any      *)
(* order, returns exactly the smallest and the largest of them in (x, y)   *)
(* order, in that order; the middle point is dropped.                      *)
C11_CollinearExtremes ==
    (pc # "init" /\ Len(points) = 3 /\ PairwiseDistinct(points)
        /\ Orient(points[1], points[2], points[3]) = 0) =>
        /\ pc = "returned"
        /\ result.kind = "hull"
        /\ Len(result.hull) = 2
        /\ \A q \in Range(points) :
               /\ q = result.hull[1] \/ KeyLess(result.hull[1], q)
               /\ q = result.hull[2] \/ KeyLess(q, result.hull[2])
        /\ Range(result.hull) \subseteq Range(points)

(* three collinear points given with the middle one last *)
C11_Witness ==
    /\ pc = "returned"
    /\ Len(points) = 3
    /\ PairwiseDistinct(points)
    /\ Orient(points[1], points[2], points[3]) = 0
    /\ KeyLess(points[2], points[3])
    /\ KeyLess(points[3], points[1])

(* C12: the base case on 3 pairwise distinct non-collinear points returns  *)
(* [p1, p2, p3] when the turn p1->p2->p3 is LEFT and [p1, p3, p2] when it  *)
(* is RIGHT, a counter-clockwise triangle either way; (0,0),(2,0),(1,1)    *)
(* comes out in that order.                                                *)
C12_TriangleCCW ==
    /\ (pc # "init" /\ Len(points) = 3 /\ PairwiseDistinct(points)
           /\ Orient(points[1], points[2], points[3]) # 0) =>
           /\ pc = "returned"
           /\ result.kind = "hull"
           /\ result.hull = IF Orient(points[1], points[2], points[3]) > 0
                            THEN points
                            ELSE <<points[1], points[3], points[2]>>
           /\ StrictlyCCW(result.hull)
    /\ (pc # "init" /\ points = <<<<0, 0>>, <<2, 0>>, <<1, 1>>>>) =>
           result = Return(<<<<0, 0>>, <<2, 0>>, <<1, 1>>>>)

(* a clockwise triangle came back with its last two points exchanged *)
C12_Witness ==
    /\ pc = "returned"
    /\ Len(points) = 3
    /\ PairwiseDistinct(points)
    /\ Orient(points[1], points[2], points[3]) < 0
    /\ result.hull = <<points[1], points[3], points[2]>>

(* C13 as stated: the base case given exactly 1 point returns that point   *)
(* as a single-element hull.                                               *)
C13_SinglePointHull ==
    (pc # "init" /\ Len(points) = 1) =>
        pc = "returned" /\ result = Return(points)

(* C13 as amended: the base case given exactly 1 point raises an error and *)
(* returns no hull.                                                        *)
C13_SinglePointRaises ==
    (pc # "init" /\ Len(points) = 1) =>
        pc = "raised" /\ result = Raise

(* a one-point list was rejected *)
C13_Witness ==
    /\ pc = "raised"
    /\ Len(points) = 1
    /\ result.kind = "error"

(* C14: the base case raises and returns no hull when its input list is    *)
(* empty, has exactly 1 point, or has more than 3 points.                  *)
C14_SizeErrors ==
    (pc # "init" /\ (Len(points) < 2 \/ Len(points) > 3)) =>
        pc = "raised" /\ result.kind = "error" /\ result.hull = <<>>

(* a list of more than three points was rejected *)
C14_Witness ==
    /\ pc = "raised"
    /\ Len(points) > 3
    /\ result.kind = "error"

(* ------- direct calls of the tangent finders and of merge_hulls -------- *)
(* The hulls a merge is given: a set of grid points in ascending order is  *)
(* cut in two, and each part, its points being the corners of a convex     *)
(* polygon, is listed counter-clockwise from any of its corners (two       *)
(* points in either order).  A part of one point or none gives the hulls   *)
(* that are too small.                                                     *)
ConvexPosition(T) == ReferenceHull(T) = T

RECURSIVE AngularOrder(_, _)
AngularOrder(p0, T) ==
    IF T = {} THEN <<>>
    ELSE LET q == CHOOSE c \in T : \A r \in T \ {c} : Orient(p0, c, r) > 0
         IN  <<q>> \o AngularOrder(p0, T \ {q})

CCWSeq(T) == <<SeqOfSet(T)[1]>> \o AngularOrder(SeqOfSet(T)[1], T \ {SeqOfSet(T)[1]})

HullsOf(T) ==
    IF Cardinality(T) <= 1 THEN {SeqOfSet(T)}
    ELSE IF Cardinality(T) = 2 THEN {SeqOfSet(T), Reverse(SeqOfSet(T))}
    ELSE IF ConvexPosition(T)
         THEN {RotateBy(CCWSeq(T), k) : k \in 0..(Cardinality(T) - 1)}
    ELSE {}

HullPairs(n) ==
    UNION {UNION {HullsOf(Range(SubSeq(SeqOfSet(S), 1, m)))
                    \X HullsOf(Range(SubSeq(SeqOfSet(S), m + 1, Cardinality(S))))
                  : m \in 0..Cardinality(S)}
           : S \in SubsetsUpTo(n)}

InitTangent ==
    /\ points = <<>>
    /\ \E pair \in HullPairs(MaxTan) : hull_a = pair[1] /\ hull_b = pair[2]
    /\ pc = "init"
    /\ result = NoResult
    /\ output = <<>>
    /\ call = "none"
    /\ file = <<>>
    /\ stack = <<>>
    /\ given = <<>>

CallUpperTangent ==
    /\ pc = "init"
    /\ result' = find_upper_tangent(hull_a, hull_b)
    /\ pc' = PcAfter(result')
    /\ call' = "find_upper_tangent"
    /\ UNCHANGED <<points, hull_a, hull_b, output, file, stack, given>>

CallLowerTangent ==
    /\ pc = "init"
    /\ result' = find_lower_tangent(hull_a, hull_b)
    /\ pc' = PcAfter(result')
    /\ call' = "find_lower_tangent"
    /\ UNCHANGED <<points, hull_a, hull_b, output, file, stack, given>>

CallMergeHulls ==
    /\ pc = "init"
    /\ result' = merge_hulls(hull_a, hull_b)
    /\ pc' = PcAfter(result')
    /\ call' = "merge_hulls"
    /\ UNCHANGED <<points, hull_a, hull_b, output, file, stack, given>>

NextTangent == CallUpperTangent \/ CallLowerTangent \/ CallMergeHulls

SpecTangent == InitTangent /\ [][NextTangent]_vars

(* ------------------- claims about tangents and merge ------------------- *)
(* The two hulls of a call are valid for the tangent finders: at least 2   *)
(* points each and every point of the left one before every point of the   *)
(* right one in (x, y) order.  InitTangent lists them counter-clockwise.   *)
ValidPair ==
    /\ Len(hull_a) >= 2
    /\ Len(hull_b) >= 2
    /\ \A p \in Range(hull_a) : \A q \in Range(hull_b) : KeyLess(p, q)

(* The points of both hulls other than the two the returned indices name *)
OtherPoints == (Range(hull_a) \cup Range(hull_b))
                 \ {At(hull_a, result.a), At(hull_b, result.b)}

(* C15: whenever find_upper_tangent returns (i, j) on a valid pair of      *)
(* hulls, no other point of either hull lies strictly above the line       *)
(* through L[i] and R[j], that is, strictly to the left of the line        *)
(* directed from L[i] to R[j].                                             *)
C15_UpperTangent ==
    (call = "find_upper_tangent" /\ result.kind = "ok" /\ ValidPair)
        => \A q \in OtherPoints :
               Orient(At(hull_a, result.a), At(hull_b, result.b), q) <= 0

(* C16: whenever find_lower_tangent returns (i, j) on a valid pair of      *)
(* hulls, no other point of either hull lies strictly below the line       *)
(* through L[i] and R[j], that is, strictly to the right of the line       *)
(* directed from L[i] to R[j].                                             *)
C16_LowerTangent ==
    (call = "find_lower_tangent" /\ result.kind = "ok" /\ ValidPair)
        => \A q \in OtherPoints :
               Orient(At(hull_a, result.a), At(hull_b, result.b), q) >= 0

(* C17: a call of find_upper_tangent, find_lower_tangent or merge_hulls    *)
(* with a hull that is empty or has fewer than 2 points ends by raising    *)
(* an error and returns no result.                                         *)
C17_SmallHullRaises ==
    (pc # "init" /\ (Len(hull_a) < 2 \/ Len(hull_b) < 2))
        => (pc = "raised" /\ result.kind = "error")

C17_Witness ==
    /\ call = "find_upper_tangent"
    /\ pc = "raised"
    /\ Len(hull_a) = 1
    /\ Len(hull_b) >= 2

(* C18: a call of find_upper_tangent or find_lower_tangent on a valid      *)
(* pair of hulls ends, by returning or by raising an error: the walk       *)
(* never goes on moving its indices without bound.                         *)
C18_WalkEnds ==
    (call \in {"find_upper_tangent", "find_lower_tangent"} /\ ValidPair)
        => result.kind # "diverge"

(* C19: merge_hulls on two duplicate-free hulls with no point in common    *)
(* returns a sequence in which no point appears twice, also when both      *)
(* tangents touch the same vertex of one of the hulls.                     *)
C19_NoDuplicateAtSeams ==
    (/\ call = "merge_hulls"
     /\ result.kind = "hull"
     /\ PairwiseDistinct(hull_a)
     /\ PairwiseDistinct(hull_b)
     /\ Range(hull_a) \cap Range(hull_b) = {})
        => PairwiseDistinct(result.hull)

C19_Witness ==
    /\ call = "merge_hulls"
    /\ result.kind = "hull"
    /\ ValidPair
    /\ \/ find_upper_tangent(hull_a, hull_b).a = find_lower_tangent(hull_a, hull_b).a
       \/ find_upper_tangent(hull_a, hull_b).b = find_lower_tangent(hull_a, hull_b).b

(* ------- convex_hull_divide_and_conquer on lists with a duplicate ------ *)
(* A direct caller may pass a list parse_input_file would reject: at most  *)
(* MaxDup distinct grid points and one of them a second time, next to its  *)
(* twin, at the front, or at the end of the ascending list.                *)
DupLists(n) ==
    UNION {UNION {{InsertSorted(SeqOfSet(S), d),
                   <<d>> \o SeqOfSet(S),
                   SeqOfSet(S) \o <<d>>} : d \in S}
           : S \in SubsetsUpTo(n)}

InitDup ==
    /\ points \in DupLists(MaxDup)
    /\ hull_a = <<>>
    /\ hull_b = <<>>
    /\ pc = "init"
    /\ result = NoResult
    /\ output = <<>>
    /\ call = "none"
    /\ file = <<>>
    /\ stack = <<>>
    /\ given = <<>>

NextDup == CallDivideAndConquer

SpecDup == InitDup /\ [][NextDup]_vars

(* C20: a call of convex_hull_divide_and_conquer on at least 2 points, two *)
(* of them with identical coordinates, ends by raising an error and        *)
(* returns no hull, wherever the two fall in the split.                    *)
C20_DuplicateRaises ==
    (/\ call = "convex_hull_divide_and_conquer"
     /\ Len(points) >= 2
     /\ ~PairwiseDistinct(points))
        => (pc = "raised" /\ result.kind = "error")

(* -------------------- direct calls of parse_input_file ----------------- *)
(* Input files: one line "x,y" per record for a list of grid points, with  *)
(* or without a repeated record; the same with every record padded with    *)
(* spaces, without the last line end, or with one more line (empty, blank  *)
(* or malformed) before the first or after the last record.  A file comes  *)
(* with the records its well-formed lines hold, in the order of the lines. *)
RecordLine(p) == Str(p[1]) \o <<",">> \o Str(p[2])

PaddedLine(p) == <<" ">> \o Str(p[1]) \o <<" ", ",", " ">> \o Str(p[2]) \o <<" ">>

RECURSIVE TextOf(_)
TextOf(lines) ==
    IF lines = <<>> THEN <<>> ELSE Head(lines) \o <<"\n">> \o TextOf(Tail(lines))

RecordLines(recs) == [i \in 1..Len(recs) |-> RecordLine(recs[i])]

BlankLines == {<<>>, <<" ">>}

MalformedLines ==
    {<<"1">>, <<"1", ",", "1", ",", "1">>, <<",", "1">>, <<"1", ",">>,
     <<"x", ",", "1">>, <<"n", "a", "n", ",", "1">>, <<"1", ",", "i", "n", "f">>}

RecordLists(n) ==
    LET lists == DistinctLists(n)
    IN  lists \cup {s \o <<s[1]>> : s \in lists \ {<<>>}}

FileCases(n) ==
    LET lists == RecordLists(n)
    IN  {[text |-> TextOf(RecordLines(recs)), records |-> recs] : recs \in lists}
        \cup {[text |-> TextOf([i \in 1..Len(recs) |-> PaddedLine(recs[i])]), records |-> recs]
              : recs \in lists}
        \cup {[text |-> SubSeq(TextOf(RecordLines(recs)), 1, Len(TextOf(RecordLines(recs))) - 1),
               records |-> recs] : recs \in lists \ {<<>>}}
        \cup UNION {{[text |-> TextOf(<<e>> \o RecordLines(SeqOfSet(S))), records |-> SeqOfSet(S)],
                     [text |-> TextOf(RecordLines(SeqOfSet(S)) \o <<e>>), records |-> SeqOfSet(S)]}
                    : <<S, e>> \in SubsetsUpTo(n) \X (BlankLines \cup MalformedLines)}

InitParse ==
    /\ points = <<>>
    /\ \E c \in FileCases(MaxRec) : file = c.text /\ hull_a = c.records
    /\ hull_b = <<>>
    /\ pc = "init"
    /\ result = NoResult
    /\ output = <<>>
    /\ call = "none"
    /\ stack = <<>>
    /\ given = <<>>

(* points = parse_input_file(filename) *)
CallParseInputFile ==
    /\ pc = "init"
    /\ LET r == parse_input_file(file)
       IN  /\ pc' = IF r.kind = "error" THEN "raised" ELSE "returned"
           /\ points' = IF r.kind = "error" THEN points ELSE r.points
    /\ call' = "parse_input_file"
    /\ UNCHANGED <<hull_a, hull_b, result, output, file, stack, given>>

NextParse == CallParseInputFile

SpecParse == InitParse /\ [][NextParse]_vars

(* C21: parse_input_file raises and returns no points when the file holds  *)
(* fewer than 3 records or two records with identical coordinates; when it *)
(* returns, the points are the records in the order of their lines, at     *)
(* least 3 and pairwise distinct, so a list position is the original index.*)
C21_ParseValidates ==
    /\ (pc # "init" /\ (Len(hull_a) < 3 \/ ~PairwiseDistinct(hull_a)))
           => (pc = "raised" /\ points = <<>>)
    /\ pc = "returned"
           => (points = hull_a /\ Len(points) >= 3 /\ PairwiseDistinct(points))

(* four records whose last repeats the first were rejected *)
C21_Witness ==
    /\ pc = "raised"
    /\ Len(hull_a) = 4
    /\ PairwiseDistinct(SubSeq(hull_a, 1, 3))
    /\ SameCoords(hull_a[1], hull_a[4])
    /\ file = TextOf(RecordLines(hull_a))

(* ------ direct calls of find_rightmost_point and find_leftmost_point --- *)
(* any list of at most MaxExt grid points, the empty one included *)
InitExtreme ==
    /\ points = <<>>
    /\ hull_a \in SeqsUpTo(Grid, MaxExt)
    /\ hull_b = <<>>
    /\ pc = "init"
    /\ result = NoResult
    /\ output = <<>>
    /\ call = "none"
    /\ file = <<>>
    /\ stack = <<>>
    /\ given = <<>>

CallFindRightmost ==
    /\ pc = "init"
    /\ result' = find_rightmost_point(hull_a)
    /\ pc' = PcAfter(result')
    /\ call' = "find_rightmost_point"
    /\ UNCHANGED <<points, hull_a, hull_b, output, file, stack, given>>

CallFindLeftmost ==
    /\ pc = "init"
    /\ result' = find_leftmost_point(hull_a)
    /\ pc' = PcAfter(result')
    /\ call' = "find_leftmost_point"
    /\ UNCHANGED <<points, hull_a, hull_b, output, file, stack, given>>

NextExtreme == CallFindRightmost \/ CallFindLeftmost

SpecExtreme == InitExtreme /\ [][NextExtreme]_vars

(* the call returned a position of hull_a *)
ReturnedIndex ==
    /\ pc = "returned"
    /\ result.kind = "index"
    /\ result.index \in 0..(Len(hull_a) - 1)

(* C22: find_rightmost_point returns the index of a point with the largest *)
(* x and, among those, the largest y; find_leftmost_point the index of a   *)
(* point with the smallest x and, among those, the smallest y; both return *)
(* 0 for a one-point hull and raise an error for an empty hull.            *)
C22_ExtremePoints ==
    /\ (call \in {"find_rightmost_point", "find_leftmost_point"} /\ hull_a = <<>>)
           => (pc = "raised" /\ result.kind = "error")
    /\ (call \in {"find_rightmost_point", "find_leftmost_point"} /\ Len(hull_a) = 1)
           => (ReturnedIndex /\ result.index = 0)
    /\ (call = "find_rightmost_point" /\ hull_a # <<>>)
           => /\ ReturnedIndex
              /\ \A p \in Range(hull_a) :
                     \/ p[1] < At(hull_a, result.index)[1]
                     \/ (p[1] = At(hull_a, result.index)[1]
                           /\ p[2] <= At(hull_a, result.index)[2])
    /\ (call = "find_leftmost_point" /\ hull_a # <<>>)
           => /\ ReturnedIndex
              /\ \A p \in Range(hull_a) :
                     \/ p[1] > At(hull_a, result.index)[1]
                     \/ (p[1] = At(hull_a, result.index)[1]
                           /\ p[2] >= At(hull_a, result.index)[2])

(* two points share the largest x and the one with the larger y, which     *)
(* comes later in the list, was returned                                   *)
C22_Witness ==
    /\ call = "find_rightmost_point"
    /\ pc = "returned"
    /\ Len(hull_a) = 3
    /\ hull_a[1][1] = hull_a[3][1]
    /\ hull_a[1][2] < hull_a[3][2]
    /\ hull_a[2][1] < hull_a[1][1]
    /\ result.index = 2

(* C23: the file written for a hull of k points holds k lines, one index   *)
(* per line in hull order, and then one more, empty line: its content ends *)
(* with two line ends.                                                     *)
C23_TrailingEmptyLine ==
    (call = "write_hull_indices_to_file" /\ pc = "written") =>
        /\ Len(output) >= 2
        /\ output[Len(output)] = "\n"
        /\ output[Len(output) - 1] = "\n"
        /\ Len(ParseLines(output)) = Len(hull_a) + 1
        /\ ParseLines(output)[Len(hull_a) + 1] = -1

(* ------------------ direct calls of point_is_above_line ---------------- *)
(* hull_a holds the two points of the line, points the point q *)
InitAbove ==
    /\ points \in [1..1 -> Grid]
    /\ hull_a \in [1..2 -> Grid]
    /\ hull_b = <<>>
    /\ pc = "init"
    /\ result = NoResult
    /\ output = <<>>
    /\ call = "none"
    /\ file = <<>>
    /\ stack = <<>>
    /\ given = <<>>

CallPointIsAboveLine ==
    /\ pc = "init"
    /\ result' = point_is_above_line(hull_a[1], hull_a[2], points[1])
    /\ pc' = PcAfter(result')
    /\ call' = "point_is_above_line"
    /\ UNCHANGED <<points, hull_a, hull_b, output, file, stack, given>>

NextAbove == CallPointIsAboveLine

SpecAbove == InitAbove /\ [][NextAbove]_vars

(* the two points of the line in (x, y)-ascending order *)
LineFrom == IF KeyLess(hull_a[2], hull_a[1]) THEN hull_a[2] ELSE hull_a[1]

LineTo == IF KeyLess(hull_a[2], hull_a[1]) THEN hull_a[1] ELSE hull_a[2]

(* C26: for p1 # p2 and any q, point_is_above_line(p1, p2, q) is true      *)
(* exactly when q is LEFT of the line directed from the smaller to the     *)
(* larger of p1, p2 in (x, y) order, also when p1 and p2 have the same x.  *)
C26_AboveIsLeft ==
    (call = "point_is_above_line" /\ ~SameCoords(hull_a[1], hull_a[2])) =>
        /\ pc = "returned"
        /\ result.above <=> (Orient(LineFrom, LineTo, points[1]) > 0)

(* The points of hull h at the indices from, from + 1, ... (modulo the     *)
(* length of h) up to the first occurrence of the index to.                *)
ForwardArc(h, from, to) ==
    [k \in 1..(((to - from + Len(h)) % Len(h)) + 1) |-> At(h, (from + k - 1) % Len(h))]

(* C27: when merge_hulls returns, the result is hull_a walked forward from *)
(* the lower-tangent index il to the upper-tangent index iu inclusive,     *)
(* followed by hull_b walked forward from ju to jl inclusive; neither walk *)
(* is longer than its hull and every returned point is a point of hull_a   *)
(* or of hull_b.                                                           *)
C27_MergeIsTwoArcs ==
    (call = "merge_hulls" /\ result.kind = "hull") =>
        LET upper == find_upper_tangent(hull_a, hull_b)
            lower == find_lower_tangent(hull_a, hull_b)
            arc_a == ForwardArc(hull_a, lower.a, upper.a)
            arc_b == ForwardArc(hull_b, upper.b, lower.b)
        IN  /\ upper.kind = "ok"
            /\ lower.kind = "ok"
            /\ result.hull = arc_a \o arc_b
            /\ Len(arc_a) <= Len(hull_a)
            /\ Len(arc_b) <= Len(hull_b)
            /\ Range(result.hull) \subseteq Range(hull_a) \cup Range(hull_b)

(* a merge that returns and walks a hull of 3 points between two different *)
(* indices, where the next index and the previous one differ: it takes two *)
(* of the three points of one hull, or wraps round the end of the list     *)
C27_Witness ==
    /\ call = "merge_hulls"
    /\ result.kind = "hull"
    /\ LET upper == find_upper_tangent(hull_a, hull_b)
           lower == find_lower_tangent(hull_a, hull_b)
       IN  \/ /\ Len(hull_a) = 3
              /\ lower.a # upper.a
              /\ Len(ForwardArc(hull_a, lower.a, upper.a)) = 2
           \/ /\ Len(hull_b) = 3
              /\ upper.b # lower.b
              /\ Len(ForwardArc(hull_b, upper.b, lower.b)) = 2

(* ------ convex_hull_divide_and_conquer, one call and return at a time -- *)
(* The call stack of one run of convex_hull_divide_and_conquer(points).    *)
(* A frame is one call of convex_hull_recursive, convex_hull_base_case or  *)
(* merge_hulls: its argument list pts (the two hulls for merge_hulls), the *)
(* statement it stands at, the hulls its callees returned so far, and once *)
(* it is done the list it returns with the mark whether that list is the   *)
(* very list object it was given.  An exception is caught nowhere: it ends *)
(* the whole run.  `given` keeps the caller's list as it was at the call.  *)
Frame(fn, pts, a, b) ==
    [fn |-> fn, at |-> "enter", pts |-> pts, left_hull |-> a, right_hull |-> b,
     ret |-> <<>>, ret_is_arg |-> FALSE]

Top == stack[Len(stack)]

Pop == SubSeq(stack, 1, Len(stack) - 1)

(* mid = len(points) // 2 *)
mid_One(pts) == 1

mid(pts) == Len(pts) \div 2

(* line 164 returns points.copy() and lines 186-194 return list displays:  *)
(* the list returned is never the list object that was passed in.          *)
base_case_returns_argument(pts) == FALSE

(* The caller's frame after its callee returned the list v: the statement  *)
(* the call stood in is completed.                                         *)
DeliverTo(caller, v, is_arg) ==
    CASE caller.at = "base"  -> [caller EXCEPT !.at = "done", !.ret = v, !.ret_is_arg = is_arg]
      [] caller.at = "left"  -> [caller EXCEPT !.at = "right_call", !.left_hull = v]
      [] caller.at = "right" -> [caller EXCEPT !.at = "merge_call", !.right_hull = v]
      [] caller.at = "merge" -> [caller EXCEPT !.at = "done", !.ret = v, !.ret_is_arg = FALSE]

ReturnToCaller(v, is_arg) ==
    SubSeq(stack, 1, Len(stack) - 2) \o <<DeliverTo(stack[Len(stack) - 1], v, is_arg)>>

(* Inputs: every set of at most MaxDrv grid points and the first points of *)
(* the grid up to MaxDeep of them, ascending and descending; and each      *)
(* ascending list with its middle point once more at the end.              *)
AscendingLists(n, m) ==
    {SeqOfSet(S) : S \in SubsetsUpTo(n)} \cup {SubSeq(SeqOfSet(Grid), 1, k) : k \in (n + 1)..m}

DriverLists(n, m) ==
    LET lists == AscendingLists(n, m)
    IN  lists
            \cup {Reverse(s) : s \in lists}
            \cup {s \o <<s[(Len(s) + 1) \div 2]>> : s \in lists \ {<<>>}}

InitDriver ==
    /\ points \in DriverLists(MaxDrv, MaxDeep)
    /\ hull_a = <<>>
    /\ hull_b = <<>>
    /\ pc = "init"
    /\ result = NoResult
    /\ output = <<>>
    /\ call = "none"
    /\ file = <<>>
    /\ stack = <<>>
    /\ given = <<>>

(* variant: the caller's list is sorted in place (points.sort(...)) *)
DriverCall_SortInPlace ==
    /\ pc = "init"
    /\ call' = "convex_hull_divide_and_conquer"
    /\ given' = points
    /\ points' = sorted(points)
    /\ IF Len(points) = 0 \/ Len(points) < 2
       THEN pc' = "raised" /\ result' = Raise /\ stack' = <<>>
       ELSE /\ pc' = "running"
            /\ result' = result
            /\ stack' = <<Frame("convex_hull_recursive", sorted(points), <<>>, <<>>)>>
    /\ UNCHANGED <<hull_a, hull_b, output, file>>

(* convex_hull_divide_and_conquer up to its call of convex_hull_recursive: *)
(* the two size checks, then sorted(), which builds a new list.            *)
DriverCall ==
    /\ pc = "init"
    /\ call' = "convex_hull_divide_and_conquer"
    /\ given' = points
    /\ points' = points
    /\ IF Len(points) = 0 \/ Len(points) < 2
       THEN pc' = "raised" /\ result' = Raise /\ stack' = <<>>
       ELSE /\ pc' = "running"
            /\ result' = result
            /\ stack' = <<Frame("convex_hull_recursive", sorted(points), <<>>, <<>>)>>
    /\ UNCHANGED <<hull_a, hull_b, output, file>>

(* convex_hull_recursive from its entry to its first call *)
RecursiveEnter ==
    /\ pc = "running"
    /\ stack # <<>>
    /\ Top.fn = "convex_hull_recursive"
    /\ Top.at = "enter"
    /\ IF Len(Top.pts) = 0
       THEN pc' = "raised" /\ result' = Raise /\ stack' = <<>>
       ELSE /\ pc' = pc
            /\ result' = result
            /\ stack' =
                 IF Len(Top.pts) <= BaseSize
                 THEN Pop \o <<[Top EXCEPT !.at = "base"],
                                Frame("convex_hull_base_case", Top.pts, <<>>, <<>>)>>
                 ELSE Pop \o <<[Top EXCEPT !.at = "left"],
                                Frame("convex_hull_recursive",
                                      SubSeq(Top.pts, 1, mid(Top.pts)), <<>>, <<>>)>>
    /\ UNCHANGED <<points, hull_a, hull_b, output, call, file, given>>

(* convex_hull_recursive going on after the left or the right half came    *)
(* back: the call on the right half, then the call of merge_hulls          *)
RecursiveResume ==
    /\ pc = "running"
    /\ stack # <<>>
    /\ Top.fn = "convex_hull_recursive"
    /\ Top.at \in {"right_call", "merge_call"}
    /\ stack' =
         IF Top.at = "right_call"
         THEN Pop \o <<[Top EXCEPT !.at = "right"],
                        Frame("convex_hull_recursive",
                              SubSeq(Top.pts, mid(Top.pts) + 1, Len(Top.pts)), <<>>, <<>>)>>
         ELSE Pop \o <<[Top EXCEPT !.at = "merge"],
                        Frame("merge_hulls", <<>>, Top.left_hull, Top.right_hull)>>
    /\ UNCHANGED <<points, hull_a, hull_b, pc, result, output, call, file, given>>

(* one call of convex_hull_base_case, from entry to return or raise *)
BaseCaseRun ==
    /\ pc = "running"
    /\ stack # <<>>
    /\ Top.fn = "convex_hull_base_case"
    /\ LET r == convex_hull_base_case(Top.pts)
       IN  IF r.kind = "error"
           THEN pc' = "raised" /\ result' = Raise /\ stack' = <<>>
           ELSE /\ pc' = pc
                /\ result' = result
                /\ stack' = ReturnToCaller(r.hull, base_case_returns_argument(Top.pts))
    /\ UNCHANGED <<points, hull_a, hull_b, output, call, file, given>>

(* one call of merge_hulls, from entry to return or raise; a tangent walk  *)
(* that cycles keeps the run in this call for ever                         *)
MergeRun ==
    /\ pc = "running"
    /\ stack # <<>>
    /\ Top.fn = "merge_hulls"
    /\ Top.at = "enter"
    /\ LET r == merge_hulls(Top.left_hull, Top.right_hull)
       IN  CASE r.kind = "error" ->
                  pc' = "raised" /\ result' = Raise /\ stack' = <<>>
             [] r.kind = "diverge" ->
                  /\ pc' = pc
                  /\ result' = Diverge
                  /\ stack' = Pop \o <<[Top EXCEPT !.at = "tangent_walk"]>>
             [] OTHER ->
                  /\ pc' = pc
                  /\ result' = result
                  /\ stack' = ReturnToCaller(r.hull, FALSE)
    /\ UNCHANGED <<points, hull_a, hull_b, output, call, file, given>>

(* the return statement of convex_hull_recursive; the outermost call       *)
(* returns to convex_hull_divide_and_conquer, which returns the same list  *)
RecursiveReturn ==
    /\ pc = "running"
    /\ stack # <<>>
    /\ Top.fn = "convex_hull_recursive"
    /\ Top.at = "done"
    /\ IF Len(stack) = 1
       THEN pc' = "returned" /\ result' = Return(Top.ret) /\ stack' = <<>>
       ELSE pc' = pc /\ result' = result /\ stack' = ReturnToCaller(Top.ret, FALSE)
    /\ UNCHANGED <<points, hull_a, hull_b, output, call, file, given>>

NextDriver ==
    \/ DriverCall
    \/ RecursiveEnter
    \/ RecursiveResume
    \/ BaseCaseRun
    \/ MergeRun
    \/ RecursiveReturn

SpecDriver == InitDriver /\ [][NextDriver]_vars

(* --------------------- claims about the recursion ---------------------- *)
(* s is ascending by (x, y); equal neighbours are let through *)
Ascending(s) == \A i \in 1..(Len(s) - 1) : ~KeyLess(s[i + 1], s[i])

(* s and t hold the same points, each as often *)
SamePoints(s, t) ==
    /\ Len(s) = Len(t)
    /\ \A p \in Range(s) \cup Range(t) :
           Cardinality({i \in 1..Len(s) : s[i] = p}) = Cardinality({i \in 1..Len(t) : t[i] = p})

FirstHalf(s) == SubSeq(s, 1, Len(s) \div 2)

SecondHalf(s) == SubSeq(s, (Len(s) \div 2) + 1, Len(s))

RangeFrames == {i \in 1..Len(stack) : stack[i].fn \in {"convex_hull_recursive", "convex_hull_base_case"}}

(* C24: the outermost range is the input sorted by (x, y); a range of at   *)
(* most 3 points goes to the base case as it is, a longer one is split at  *)
(* len // 2 into its first and its second part, which are handed to the    *)
(* recursive calls; so every range handed to a recursive call or a base    *)
(* case is ascending and every point of a left half precedes every point   *)
(* of its right half.                                                      *)
C24_DriverStructure ==
    /\ stack # <<>> =>
           /\ stack[1].fn = "convex_hull_recursive"
           /\ SamePoints(stack[1].pts, points)
    /\ \A i \in RangeFrames :
           /\ Ascending(stack[i].pts)
           /\ stack[i].fn = "convex_hull_base_case" =>
                  /\ Len(stack[i].pts) <= 3
                  /\ i > 1
                  /\ stack[i - 1].fn = "convex_hull_recursive"
                  /\ stack[i - 1].at = "base"
                  /\ stack[i - 1].pts = stack[i].pts
           /\ (stack[i].fn = "convex_hull_recursive" /\ stack[i].at = "base") =>
                  Len(stack[i].pts) <= 3
           /\ (stack[i].fn = "convex_hull_recursive"
                 /\ stack[i].at \in {"left", "right_call", "right", "merge_call", "merge"}) =>
                  Len(stack[i].pts) > 3
           /\ (stack[i].fn = "convex_hull_recursive" /\ i > 1) =>
                  /\ stack[i - 1].fn = "convex_hull_recursive"
                  /\ stack[i - 1].at \in {"left", "right"}
                  /\ stack[i - 1].at = "left" => stack[i].pts = FirstHalf(stack[i - 1].pts)
                  /\ stack[i - 1].at = "right" => stack[i].pts = SecondHalf(stack[i - 1].pts)
           /\ (stack[i].fn = "convex_hull_recursive" /\ Len(stack[i].pts) > 3) =>
                  /\ FirstHalf(stack[i].pts) \o SecondHalf(stack[i].pts) = stack[i].pts
                  /\ \A p \in Range(FirstHalf(stack[i].pts)) :
                         \A q \in Range(SecondHalf(stack[i].pts)) : ~KeyLess(q, p)
                  /\ PairwiseDistinct(points) =>
                         Range(FirstHalf(stack[i].pts)) \cap Range(SecondHalf(stack[i].pts)) = {}

(* an input given in descending order whose right half of 4 points is      *)
(* split again                                                             *)
C24_Witness ==
    /\ Len(stack) = 3
    /\ points # sorted(points)
    /\ stack[1].at = "right"
    /\ stack[2].at = "left"
    /\ Len(stack[2].pts) = 4
    /\ Len(stack[3].pts) = 2

(* C25: for an input of n >= 2 pairwise distinct points no range of 1      *)
(* point (or none) is passed to convex_hull_base_case, and every hull      *)
(* passed to merge_hulls and every hull returned up the recursion has at   *)
(* least 2 points.                                                         *)
C25_NoSinglePoint ==
    (Len(points) >= 2 /\ PairwiseDistinct(points)) =>
        /\ \A i \in 1..Len(stack) :
               /\ stack[i].fn = "convex_hull_base_case" => Len(stack[i].pts) >= 2
               /\ stack[i].fn = "merge_hulls" =>
                      (Len(stack[i].left_hull) >= 2 /\ Len(stack[i].right_hull) >= 2)
               /\ stack[i].at = "done" => Len(stack[i].ret) >= 2
        /\ pc = "returned" => Len(result.hull) >= 2

(* merge_hulls has returned a hull to the call that split 4 points *)
C25_Witness ==
    /\ PairwiseDistinct(points)
    /\ Len(stack) = 1
    /\ stack[1].at = "done"
    /\ Len(stack[1].pts) = 4
    /\ Len(stack[1].left_hull) = 2
    /\ Len(stack[1].right_hull) = 2
    /\ Len(stack[1].ret) >= 2

(* C28: during and after a call of convex_hull_divide_and_conquer, also    *)
(* one that raises, the caller's list is as it was given; every list in    *)
(* the recursion holds points of the input with their coordinates; and     *)
(* every list a call returns is a newly built one, not the list object the *)
(* call was given.                                                         *)
C28_Frame ==
    /\ pc # "init" => points = given
    /\ \A i \in 1..Len(stack) :
           /\ Range(stack[i].pts) \cup Range(stack[i].left_hull)
                \cup Range(stack[i].right_hull) \cup Range(stack[i].ret) \subseteq Range(given)
           /\ stack[i].at = "done" => ~stack[i].ret_is_arg
    /\ pc = "returned" => Range(result.hull) \subseteq Range(given)
    /\ \A i \in RangeFrames :
           \A p \in Range(given) :
               Cardinality({k \in 1..Len(stack[i].pts) : stack[i].pts[k] = p})
                   <= Cardinality({k \in 1..Len(given) : given[k] = p})

(* a call on 4 or more points given out of order raised inside the         *)
(* recursion and the caller's list is still in the order given             *)
C28_Witness ==
    /\ pc = "raised"
    /\ Len(points) >= 4
    /\ points # sorted(points)
    /\ points = given

====
